---------------------------- MODULE Spec2Model ----------------------------
(***************************************************************************)
(* Model of src/_latex/cv.11ty.js: the texCV template class whose render   *)
(* builds a LaTeX document from the site data and pipes it to LuaLaTeX.    *)
(*                                                                         *)
(* Encoding of JavaScript values.  A JavaScript string is a TLA+ string;   *)
(* the value undefined is the string "undefined" (which is also what a     *)
(* template literal prints for it).  A piece of generated text is a        *)
(* sequence of strings, concatenation is \o.  Arrays are sequences.        *)
(*                                                                         *)
(* Environment.  The model follows the JavaScript of the source: run to    *)
(* completion between awaits, promises, event listeners.  The compiler is  *)
(* a black box that may exit at any moment with any code.  Failures of the *)
(* platform that the source does not mention (a binary that cannot be      *)
(* spawned, a broken pipe, mkdir failing) are outside the model.           *)
(***************************************************************************)
EXTENDS Integers, Sequences, FiniteSets, TLC

VARIABLES
    data,       \* the context object passed to render (mutable JS objects)
    data0,      \* history: the context as it was when render was called
    pc,         \* position of render
    texBody,    \* the constant texBody of render, once computed
    preamble,   \* state of the promise texPreamble
    postamble,  \* state of the promise texPostamble
    tmpDir,     \* whether ./tmp exists
    child,      \* the LuaLaTeX process: "none", "running" or "exited"
    exitCode,   \* its exit code once exited
    stdin,      \* what was written to lualatexProcess.stdin, one entry per write
    listeners,  \* number of "close" listeners on lualatexProcess
    closeSeen,  \* whether the "close" event has been emitted
    rename,     \* the fs.rename request: "none", "pending", "ok", "err"
    events,     \* history: the externally visible effects, in order
    retval,     \* the value render resolved with, "pending" before
    arg,        \* argument of the function under test (function specifications)
    out         \* its results

vars == <<data, data0, pc, texBody, preamble, postamble, tmpDir, child,
          exitCode, stdin, listeners, closeSeen, rename, events, retval,
          arg, out>>

renderVars == <<data, data0, pc, texBody, preamble, postamble, tmpDir, child,
                exitCode, stdin, listeners, closeSeen, rename, events, retval>>

-----------------------------------------------------------------------------
(* Bounds of the model *)

MaxEntries == 3      \* entries in a collection given to sortByDate
MaxAwards == 1       \* entries in a collection given to texAwards
MaxPapers == 2       \* papers in a collection
MaxAuthors == 3      \* authors of a paper
MaxVenues == 2       \* refereeing venues
MaxExitCode == 1     \* exit codes of the compiler are 0..MaxExitCode

-----------------------------------------------------------------------------
(* JavaScript values *)

Undef == "undefined"

\* ToBoolean on the values of the model
Truthy(x) == x \notin {Undef, "", "false", "null"}

Range(s) == {s[i] : i \in DOMAIN s}

SeqsUpTo(S, n) == UNION {[1..k -> S] : k \in 0..n}

\* Array.prototype.filter with the predicate given as the set of kept values
RECURSIVE Filter(_, _)
Filter(s, keep) ==
    IF s = <<>> THEN <<>>
    ELSE (IF Head(s) \in keep THEN <<Head(s)>> ELSE <<>>) \o Filter(Tail(s), keep)

\* Array.prototype.join on an array of texts
RECURSIVE Join(_, _)
Join(texts, sep) ==
    IF texts = <<>> THEN <<>>
    ELSE IF Len(texts) = 1 THEN texts[1]
    ELSE texts[1] \o <<sep>> \o Join(Tail(texts), sep)

\* number of occurrences of x in s
RECURSIVE Count(_, _)
Count(s, x) ==
    IF s = <<>> THEN 0
    ELSE (IF Head(s) = x THEN 1 ELSE 0) + Count(Tail(s), x)

IsPermutation(s, t) ==
    /\ Len(s) = Len(t)
    /\ \A x \in Range(s) \cup Range(t) : Count(s, x) = Count(t, x)

-----------------------------------------------------------------------------
(* Dates.  Calendar lists the date strings of the model that Date.parse    *)
(* accepts, with their year, month and day; any other string, and          *)
(* undefined, parse to NaN.  The instants are taken at midday so that the  *)
(* local year of getFullYear is the year written in the string.            *)

Calendar ==
    ("2019-05-01" :> <<2019, 5, 1>>) @@
    ("2021-03-15" :> <<2021, 3, 15>>) @@
    ("2021-09-01" :> <<2021, 9, 1>>)

\* Date.parse: a number, or NaN
DateParse(s) ==
    IF s \in DOMAIN Calendar
    THEN [nan |-> FALSE, t |-> (Calendar[s][1] * 12 + Calendar[s][2]) * 31 + Calendar[s][3]]
    ELSE [nan |-> TRUE, t |-> 0]

\* the operators > and < on numbers: false as soon as one side is NaN
NumGt(a, b) == ~a.nan /\ ~b.nan /\ a.t > b.t
NumLt(a, b) == ~a.nan /\ ~b.nan /\ a.t < b.t

\* new Date(dateString).getFullYear(), as a template literal prints it
getYear(dateString) ==
    IF dateString \in DOMAIN Calendar THEN ToString(Calendar[dateString][1]) ELSE "NaN"

-----------------------------------------------------------------------------
(* Array.prototype.sort as V8 runs it on an array of fewer than 64         *)
(* elements: one run is counted (and reversed when strictly descending),   *)
(* the rest is inserted by binary insertion.  cmp is the comparator as a   *)
(* function of pairs; a negative value puts its first argument first.      *)

Reverse(s) == [i \in DOMAIN s |-> s[Len(s) + 1 - i]]

\* length of the run that starts the array, given its direction
RECURSIVE RunLength(_, _, _, _)
RunLength(a, cmp, descending, len) ==
    IF len >= Len(a) THEN len
    ELSE LET order == cmp[a[len + 1], a[len]]
         IN  IF (descending /\ order >= 0) \/ (~descending /\ order < 0)
             THEN len
             ELSE RunLength(a, cmp, descending, len + 1)

\* position (0-based) at which pivot goes into the sorted prefix a[1..right]
RECURSIVE InsertionPoint(_, _, _, _, _)
InsertionPoint(a, cmp, pivot, left, right) ==
    IF left >= right THEN left
    ELSE LET mid == left + ((right - left) \div 2)
         IN  IF cmp[pivot, a[mid + 1]] < 0
             THEN InsertionPoint(a, cmp, pivot, left, mid)
             ELSE InsertionPoint(a, cmp, pivot, mid + 1, right)

\* binary insertion of a[start+1 ..] into the sorted prefix a[1..start]
RECURSIVE BinaryInsertionSort(_, _, _)
BinaryInsertionSort(a, cmp, start) ==
    IF start >= Len(a) THEN a
    ELSE LET pivot == a[start + 1]
             left == InsertionPoint(a, cmp, pivot, 0, start)
             moved == SubSeq(a, 1, left) \o <<pivot>> \o SubSeq(a, left + 1, start)
                        \o SubSeq(a, start + 2, Len(a))
         IN  BinaryInsertionSort(moved, cmp, start + 1)

ArraySort(a, cmp) ==
    IF Len(a) < 2 THEN a
    ELSE LET descending == cmp[a[2], a[1]] < 0
             run == RunLength(a, cmp, descending, 2)
             made == IF descending
                     THEN Reverse(SubSeq(a, 1, run)) \o SubSeq(a, run + 1, Len(a))
                     ELSE a
         IN  BinaryInsertionSort(made, cmp, run)

\* position of string s in a list that gives an order on strings
Position(order, s) == CHOOSE i \in DOMAIN order : order[i] = s

\* The strings that are sorted as text, in the order of their UTF-16 code
\* units (upper case first) and in the order of String.prototype.localeCompare
\* (letters first, case last).
CodeUnitOrder == <<"Beta", "alpha", "gamma">>
LocaleOrder == <<"alpha", "Beta", "gamma">>
Names == Range(CodeUnitOrder)

\* the comparator of Array.prototype.sort() called without an argument
DefaultComparator(a) ==
    [p \in Range(a) \X Range(a) |->
        IF Position(CodeUnitOrder, p[1]) < Position(CodeUnitOrder, p[2]) THEN -1
        ELSE IF Position(CodeUnitOrder, p[1]) > Position(CodeUnitOrder, p[2]) THEN 1
        ELSE 0]

\* (a, b) => a.title.localeCompare(b.title)
TitleComparator(a) ==
    [p \in Range(a) \X Range(a) |->
        IF Position(LocaleOrder, p[1].title) < Position(LocaleOrder, p[2].title) THEN -1
        ELSE IF Position(LocaleOrder, p[1].title) > Position(LocaleOrder, p[2].title) THEN 1
        ELSE 0]

-----------------------------------------------------------------------------
(* 2. Helper functions *)

\* the comparator of sortByDate, ternary by ternary
DateComparator(array, key) ==
    [p \in Range(array) \X Range(array) |->
        IF NumGt(DateParse(p[1][key]), DateParse(p[2][key])) THEN -1
        ELSE IF NumLt(DateParse(p[1][key]), DateParse(p[2][key])) THEN 1
        ELSE 0]

\* array.slice(0).sort(...): a new array, the argument is left alone
sortByDate(array, key) == ArraySort(array, DateComparator(array, key))

-----------------------------------------------------------------------------
(* The filters this.where and this.where_not.  They are registered in the  *)
(* site configuration, which is not part of the source at hand; they are   *)
(* modelled from their description: where keeps the items selected by the  *)
(* key (equal to the value when one is given, truthy otherwise), where_not *)
(* keeps the others.  The key of a collection item is looked up in its     *)
(* data.                                                                   *)

Lookup(item, key) ==
    IF "data" \in DOMAIN item THEN item.data[key] ELSE item[key]

Selected(item, key, value) ==
    IF value = Undef THEN Truthy(Lookup(item, key)) ELSE Lookup(item, key) = value

where(array, key, value) ==
    Filter(array, {x \in Range(array) : Selected(x, key, value)})

where_not(array, key, value) ==
    Filter(array, {x \in Range(array) : ~Selected(x, key, value)})

-----------------------------------------------------------------------------
(* 3. Section functions and strings *)

\* url.replace(/(^\w+:|^)\/\//, ""): drops a leading protocol
StripProtocol(url) ==
    IF url # <<>> /\ Head(url) \in {"https://", "http://", "//"} THEN Tail(url) ELSE url

\* String.prototype.replace with a string pattern: the first occurrence only
RECURSIVE ReplaceFirst(_, _, _)
ReplaceFirst(s, x, y) ==
    IF s = <<>> THEN <<>>
    ELSE IF Head(s) = x THEN <<y>> \o Tail(s)
    ELSE <<Head(s)>> \o ReplaceFirst(Tail(s), x, y)

Bullet == "\n    {\\hspace{0.1em}\\textbullet\\hspace{0.1em}}\n    "

texAddressLine ==
    <<"\\href{mailto:", data.site.email, "}{", data.site.email, "}", Bullet, "\\href{">>
        \o data.site.url \o <<"}{">> \o StripProtocol(data.site.url) \o <<"} ", Bullet,
        "\\href{https://linkedin.com/in/", data.site.linkedin, "}{\\faLinkedin/",
        data.site.linkedin, "} ", Bullet,
        "\\href{https://github.com/", data.site.github, "}{\\faGithub/",
        data.site.github, "}">>

texDegree(degree) ==
    <<"\\cvsubsubsection{", degree.title, "} \\dateright{", getYear(degree.start),
      "--", getYear(degree.end), "}">>

texEducation(education) ==
    Join([i \in DOMAIN education |->
            <<"\\cvsubsection{", education[i].school, "}\n\n">>
                \o Join([j \in DOMAIN education[i].degrees |->
                            texDegree(education[i].degrees[j])], "\n\n")],
         "\n\n")

\* withString with the test on the number of authors off by one
withString_anyAuthor(paper) ==
    IF Len(paper.data.authors) > 0
    THEN <<" (with ">>
            \o Join([i \in DOMAIN where_not(paper.data.authors, "name", data.site.title) |->
                        <<where_not(paper.data.authors, "name", data.site.title)[i].name>>],
                    ", ")
            \o <<")">>
    ELSE <<>>

\* the co-author annotation of a paper
withString(paper) ==
    IF Len(paper.data.authors) > 1
    THEN <<" (with ">>
            \o Join([i \in DOMAIN where_not(paper.data.authors, "name", data.site.title) |->
                        <<where_not(paper.data.authors, "name", data.site.title)[i].name>>],
                    ", ")
            \o <<")">>
    ELSE <<>>

\* journalString with the tests for accepted and published exchanged
journalString_acceptedFirst(paper) ==
    IF Truthy(paper.data.journal) /\ Truthy(paper.data.accepted)
    THEN <<"\n\n\\cvsubsubsection{Accepted at ", paper.data.journal, "}">>
    ELSE IF Truthy(paper.data.journal) /\ Truthy(paper.data.published)
    THEN <<"\n\n\\cvsubsubsection{", paper.data.journal, " ", paper.data.year, "}">>
    ELSE IF Truthy(paper.data.journal) /\ Truthy(paper.data.rnr)
    THEN <<"\n\n\\cvsubsubsection{R\\&R at ", paper.data.journal, "}">>
    ELSE <<>>

\* the status annotation of a paper
journalString(paper) ==
    IF Truthy(paper.data.journal) /\ Truthy(paper.data.published)
    THEN <<"\n\n\\cvsubsubsection{", paper.data.journal, " ", paper.data.year, "}">>
    ELSE IF Truthy(paper.data.journal) /\ Truthy(paper.data.accepted)
    THEN <<"\n\n\\cvsubsubsection{Accepted at ", paper.data.journal, "}">>
    ELSE IF Truthy(paper.data.journal) /\ Truthy(paper.data.rnr)
    THEN <<"\n\n\\cvsubsubsection{R\\&R at ", paper.data.journal, "}">>
    ELSE <<>>

texPaper(paper) ==
    <<"\\cvsubsection{\\href{">> \o data.site.url \o <<paper.url, "}{``", paper.data.title, "''}}">>
        \o withString(paper) \o journalString(paper)
        \o <<"\n\n\\begin{markdown}", paper.content, "\\end{markdown}\n          ">>

texPapers(papers) == Join([i \in DOMAIN papers |-> texPaper(papers[i])], "\n\n")

texPresentations(presentations) ==
    Join([i \in DOMAIN presentations |->
            <<sortByDate(presentations, "date")[i].where, " \\dateright{",
              getYear(sortByDate(presentations, "date")[i].date), "}">>],
         "\n\n")

\* awardDateString with the range accepted as soon as one of its ends is there
awardDateString_eitherEnd(award) ==
    IF Truthy(award.date)
    THEN <<" \\dateright{", getYear(award.date), "}">>
    ELSE IF Truthy(award.start) \/ Truthy(award.end)
    THEN <<" \\dateright{", getYear(award.start), "--", getYear(award.end), "}">>
    ELSE <<>>

\* the date annotation of an award: a single date, else a range, else nothing
awardDateString(award) ==
    IF Truthy(award.date)
    THEN <<" \\dateright{", getYear(award.date), "}">>
    ELSE IF Truthy(award.start) /\ Truthy(award.end)
    THEN <<" \\dateright{", getYear(award.start), "--", getYear(award.end), "}">>
    ELSE <<>>

texAward(award) ==
    Join([i \in DOMAIN Filter(<<award.title, award.for, award.from>>,
                              {x \in {award.title, award.for, award.from} : Truthy(x)}) |->
            <<Filter(<<award.title, award.for, award.from>>,
                     {x \in {award.title, award.for, award.from} : Truthy(x)})[i]>>],
         ", ")
        \o awardDateString(award)

texAwards(awards) ==
    Join([i \in DOMAIN awards |-> texAward(sortByDate(awards, "date")[i])], "\n\n")

texProject(project) ==
    <<"\\cvsubsubsection{\\href{", project.url, "}{", project.title, "}}">>
        \o (IF Truthy(project.github)
            THEN <<"\\dateright{\\href{", project.github, "}{\\faGithub\\ Source}}">>
            ELSE <<>>)

texList(projects) == Join([i \in DOMAIN projects |-> texProject(projects[i])], "\n\n")

texReference(reference) ==
    <<"\\cvsubsection{\\href{", reference.url, "}{", reference.title, "}}\n\n",
      "\\cvsubsubsection{", reference.description, "}\n\n", "\\href{mailto:">>
        \o ReplaceFirst(reference.email, "..", "@") \o <<"}{">>
        \o ReplaceFirst(reference.email, "..", "@") \o <<"}">>

texReferences(references) ==
    Join([i \in DOMAIN references |-> texReference(references[i])], "\n\n")

-----------------------------------------------------------------------------
(* 4. Generate the tex file *)

PublicationsHeader == "\n\n%%% Publications\n\\cvsection{Publications}\n\n"
WorkingPapersHeader == "\n\n%%% Working papers\n\\cvsection{Working Papers}\n\n"
PresentationsHeader == "\n\n%%% Presentations\n\\cvsection{Presentations}\\vspace{1.618ex}\n\n"

\* WorkingPapers selected by another flag than PublishedPapers
WorkingPapers_byPublished == where_not(data.collections.papers, "published", Undef)

\* the papers listed under "Publications" and under "Working Papers"
PublishedPapers == where(data.collections.papers, "accepted", Undef)
WorkingPapers == where_not(data.collections.papers, "accepted", Undef)

\* the template literal texBody, evaluated on the context as it is
TexBodyText ==
    <<"%%% Make a header for CV with personal data\n\\begin{center}\n  \\headernamestyle{\n    ",
      data.site.title, "\n  }\n  \\\\\n  \\vspace{0.6mm}\n  \\headerpositionstyle{\n    ",
      data.site.bio, "\n  }\n  \\\\\n  \\vspace{0.4mm}\n  \\headeraddressstyle{\n    ">>
    \o texAddressLine
    \o <<"\n  }\n  \\\\\n  \\vspace{-1mm}\n\\end{center}\n\n%%% Education\n\\cvsection{Education}\n\n">>
    \o texEducation(data.cv.education)
    \o <<PublicationsHeader>>
    \o texPapers(PublishedPapers)
    \o <<WorkingPapersHeader>>
    \o texPapers(WorkingPapers)
    \o <<PresentationsHeader>>
    \o texPresentations(data.cv.presentations)
    \o <<"\n\n%%% Refereeing\n\\cvsection{Refereeing}\\vspace{1.618ex}\n\n">>
    \o Join([i \in DOMAIN data.cv.refereeing |->
                <<ArraySort(data.cv.refereeing, DefaultComparator(data.cv.refereeing))[i]>>],
            ", ")
    \o <<"\n\n%%% Fellowships \\& Awards\n\\cvsection{Fellowships \\& Awards}\\vspace{1.618ex}\n\n">>
    \o texAwards(data.cv.awards)
    \o <<"\n\n%%% RA Experience\n\\cvsection{Research Experience}\\vspace{1.618ex}\n\n">>
    \o texAwards(data.cv.researchexp)
    \o <<"\n\n%%% Software\n\\cvsection{Software}\n\n\\cvsubsection{Research Software Packages}\n\n">>
    \o texList(ArraySort(data.projectsAcademic, TitleComparator(data.projectsAcademic)))
    \o <<"\n\n\\cvsubsection{Other Software \\& Projects}\n\n">>
    \o texList(ArraySort(data.projectsProfessional \o data.projectsPersonal,
                         TitleComparator(data.projectsProfessional \o data.projectsPersonal)))
    \o <<"\n\n%%% References\n\\cvsection{References}\n">>
    \o texReferences(data.cv.references)
    \o <<"\n">>

\* the context after texBody was evaluated: Array.prototype.sort sorts the
\* array it is called on, and the two arrays below belong to the context
DataAfterTexBody ==
    [data EXCEPT
        !.cv.refereeing = ArraySort(data.cv.refereeing, DefaultComparator(data.cv.refereeing)),
        !.projectsAcademic = ArraySort(data.projectsAcademic, TitleComparator(data.projectsAcademic))]

-----------------------------------------------------------------------------
(* The contexts render is called with *)

Owner == "Matt Thomas"

Site ==
    [title |-> Owner, bio |-> "Economist", email |-> "matt@example.com",
     url |-> <<"https://", "example.com">>, linkedin |-> "mwt", github |-> "mwt"]

Project(title, github) ==
    [title |-> title, url |-> "https://example.com/" \o title, github |-> github]

MkPaper(i, authors, journal, published, accepted, rnr) ==
    [url |-> "/papers/" \o ToString(i) \o "/",
     content |-> "Abstract " \o ToString(i),
     data |-> [title |-> "Paper " \o ToString(i),
               authors |-> [k \in DOMAIN authors |-> [name |-> authors[k]]],
               journal |-> journal, year |-> "2022",
               published |-> published, accepted |-> accepted, rnr |-> rnr]]

BaseData ==
    [site |-> Site,
     cv |-> [education |-> <<[school |-> "University",
                              degrees |-> <<[title |-> "PhD", start |-> "2019-05-01",
                                             end |-> "2021-09-01"]>>]>>,
             presentations |-> <<[where |-> "Early", date |-> "2019-05-01"],
                                 [where |-> "Late", date |-> "2021-03-15"]>>,
             refereeing |-> <<"alpha", "gamma">>,
             awards |-> <<[title |-> "Prize", for |-> Undef, from |-> "Society",
                           date |-> "2021-03-15", start |-> Undef, end |-> Undef]>>,
             researchexp |-> <<[title |-> "Research Assistant", for |-> "A. Author",
                                from |-> Undef, date |-> Undef,
                                start |-> "2019-05-01", end |-> "2021-03-15"]>>,
             references |-> <<[title |-> "Jane Doe", url |-> "https://example.org",
                               description |-> "Professor",
                               email |-> <<"jane", "..", "example.org">>]>>],
     collections |-> [papers |-> <<MkPaper(1, <<Owner>>, "JET", "true", "true", Undef),
                                   MkPaper(2, <<Owner, "Ann">>, Undef, Undef, Undef, Undef)>>],
     projectsAcademic |-> <<Project("alpha", Undef)>>,
     projectsProfessional |-> <<Project("gamma", "https://github.com/mwt/gamma")>>,
     projectsPersonal |-> <<Project("Beta", Undef)>>]

\* the values of a flag of a paper's front matter, and of its journal
Flags == {Undef, "true"}
Journals == {Undef, "JET"}
AuthorNames == {Owner, "Ann", "Bob"}

\* collections of papers that differ in what decides their section
SectionPapers ==
    UNION {{[i \in 1..k |-> MkPaper(i, <<Owner>>, f[i][1], f[i][2], f[i][3], Undef)] :
              f \in [1..k -> {Undef, "JET"} \X Flags \X {Undef, "true", "false"}]} :
           k \in 0..MaxPapers}

\* the lists of authors: up to MaxAuthors names, none of them twice
AuthorLists ==
    {a \in SeqsUpTo(AuthorNames, MaxAuthors) : \A i, j \in DOMAIN a : a[i] = a[j] => i = j}

\* collections of papers that differ in their authors
AuthorPapers ==
    UNION {{[i \in 1..k |-> MkPaper(i, f[i], "JET", Undef, Undef, "true")] :
              f \in [1..k -> AuthorLists]} :
           k \in 0..MaxPapers}

\* collections of papers that differ in their journal and status flags
StatusPapers ==
    UNION {{[i \in 1..k |-> MkPaper(i, <<Owner>>, f[i][1], f[i][2], f[i][3], f[i][4])] :
              f \in [1..k -> Journals \X Flags \X Flags \X Flags]} :
           k \in 0..MaxPapers}

\* collections of presentations, awards: the i-th entry is named after i
DatedEntries ==
    UNION {{[i \in 1..k |-> [where |-> "Venue " \o ToString(i), date |-> f[i]]] :
              f \in [1..k -> {Undef} \cup DOMAIN Calendar]} :
           k \in 0..MaxEntries}

AwardEntries ==
    UNION {[1..k -> [title : {"", "Prize"}, for : {Undef, "best paper"},
                     from : {Undef, "Society"}, date : {Undef, "2021-03-15"},
                     start : {Undef, "2019-05-01"}, end : {Undef, "2021-09-01"}]] :
           k \in 0..MaxAwards}

-----------------------------------------------------------------------------
(* 5. render, statement by statement.  JavaScript runs render to its next  *)
(* await before any callback; the compiler runs beside it.                 *)

PreambleText == "_preamble.tex"
PostambleText == "_postamble.tex"
RenameEvent == "fs.rename ./tmp/cv.pdf ./dist/cv.pdf"
FailureLog == "log: LuaLaTeX process exited with code"
SuccessLog == "log: CV moved to dist folder"

\* render is suspended or over: the event loop may run a callback
Idle ==
    \/ pc \in {"returned", "rejected"}
    \/ pc = "awaitPreamble" /\ preamble = "pending"
    \/ pc = "awaitPostamble" /\ postamble = "pending"

\* fs.promises.readFile, twice (lines 28-35)
ReadDispatch ==
    /\ pc = "start"
    /\ preamble' = "pending"
    /\ postamble' = "pending"
    /\ pc' = "body"
    /\ UNCHANGED <<data, data0, texBody, tmpDir, child, exitCode, stdin, listeners,
                   closeSeen, rename, events, retval, arg, out>>

\* sections 2 to 4: the helpers, the section functions and texBody
BuildBody ==
    /\ pc = "body"
    /\ texBody' = TexBodyText
    /\ data' = DataAfterTexBody
    /\ pc' = "mkdir"
    /\ UNCHANGED <<data0, preamble, postamble, tmpDir, child, exitCode, stdin, listeners,
                   closeSeen, rename, events, retval, arg, out>>

\* if (!fs.existsSync("./tmp")) fs.mkdirSync("./tmp")
EnsureTmp ==
    /\ pc = "mkdir"
    /\ tmpDir' = TRUE
    /\ events' = IF tmpDir THEN events ELSE Append(events, "mkdir ./tmp")
    /\ pc' = "spawn"
    /\ UNCHANGED <<data, data0, texBody, preamble, postamble, child, exitCode, stdin,
                   listeners, closeSeen, rename, retval, arg, out>>

\* Spawn with the listener of "close" attached to the process at once
Spawn_listening ==
    /\ pc = "spawn"
    /\ child' = "running"
    /\ listeners' = listeners + 1
    /\ events' = Append(events, "spawn")
    /\ pc' = "awaitPreamble"
    /\ UNCHANGED <<data, data0, texBody, preamble, postamble, tmpDir, exitCode, stdin,
                   closeSeen, rename, retval, arg, out>>

\* spawn(lualatex, ["--jobname=cv"], {cwd: "./tmp"})
Spawn ==
    /\ pc = "spawn"
    /\ child' = "running"
    /\ events' = Append(events, "spawn")
    /\ pc' = "awaitPreamble"
    /\ UNCHANGED <<data, data0, texBody, preamble, postamble, tmpDir, exitCode, stdin,
                   listeners, closeSeen, rename, retval, arg, out>>

\* await texPreamble, inside the argument of stdin.write
AwaitPreamble ==
    /\ pc = "awaitPreamble"
    /\ preamble \in {"ok", "err"}
    /\ pc' = IF preamble = "ok" THEN "awaitPostamble" ELSE "rejected"
    /\ retval' = IF preamble = "ok" THEN retval ELSE "rejected"
    /\ UNCHANGED <<data, data0, texBody, preamble, postamble, tmpDir, child, exitCode,
                   stdin, listeners, closeSeen, rename, events, arg, out>>

\* AwaitPostamble with the failure of the read caught and ignored
AwaitPostamble_caught ==
    /\ pc = "awaitPostamble"
    /\ postamble \in {"ok", "err"}
    /\ pc' = "write"
    /\ UNCHANGED <<data, data0, texBody, preamble, postamble, tmpDir, child, exitCode,
                   stdin, listeners, closeSeen, rename, events, retval, arg, out>>

\* await texPostamble, inside the argument of stdin.write
AwaitPostamble ==
    /\ pc = "awaitPostamble"
    /\ postamble \in {"ok", "err"}
    /\ pc' = IF postamble = "ok" THEN "write" ELSE "rejected"
    /\ retval' = IF postamble = "ok" THEN retval ELSE "rejected"
    /\ UNCHANGED <<data, data0, texBody, preamble, postamble, tmpDir, child, exitCode,
                   stdin, listeners, closeSeen, rename, events, arg, out>>

\* the document: `${await texPreamble}\n${texBody}\n${await texPostamble}`
Document == <<PreambleText, "\n">> \o texBody \o <<"\n", PostambleText>>

\* lualatexProcess.stdin.write(...)
Write ==
    /\ pc = "write"
    /\ stdin' = Append(stdin, Document)
    /\ events' = Append(events, "stdin.write")
    /\ pc' = "end"
    /\ UNCHANGED <<data, data0, texBody, preamble, postamble, tmpDir, child, exitCode,
                   listeners, closeSeen, rename, retval, arg, out>>

\* lualatexProcess.stdin.end()
End ==
    /\ pc = "end"
    /\ events' = Append(events, "stdin.end")
    /\ pc' = "on"
    /\ UNCHANGED <<data, data0, texBody, preamble, postamble, tmpDir, child, exitCode,
                   stdin, listeners, closeSeen, rename, retval, arg, out>>

\* lualatexProcess.on("close", ...)
RegisterClose ==
    /\ pc = "on"
    /\ listeners' = listeners + 1
    /\ pc' = "return"
    /\ UNCHANGED <<data, data0, texBody, preamble, postamble, tmpDir, child, exitCode,
                   stdin, closeSeen, rename, events, retval, arg, out>>

\* return; the promise of render resolves with undefined
Return ==
    /\ pc = "return"
    /\ retval' = Undef
    /\ events' = Append(events, "return")
    /\ pc' = "returned"
    /\ UNCHANGED <<data, data0, texBody, preamble, postamble, tmpDir, child, exitCode,
                   stdin, listeners, closeSeen, rename, arg, out>>

\* a read completes or fails; its promise settles in a turn of the event loop
PreambleSettles ==
    /\ preamble = "pending"
    /\ Idle
    /\ \E r \in {"ok", "err"} : preamble' = r
    /\ UNCHANGED <<data, data0, pc, texBody, postamble, tmpDir, child, exitCode, stdin,
                   listeners, closeSeen, rename, events, retval, arg, out>>

PostambleSettles ==
    /\ postamble = "pending"
    /\ Idle
    /\ \E r \in {"ok", "err"} : postamble' = r
    /\ UNCHANGED <<data, data0, pc, texBody, preamble, tmpDir, child, exitCode, stdin,
                   listeners, closeSeen, rename, events, retval, arg, out>>

\* the compiler exits, whenever it does
ChildExit ==
    /\ child = "running"
    /\ child' = "exited"
    /\ \E code \in 0..MaxExitCode : exitCode' = code
    /\ UNCHANGED <<data, data0, pc, texBody, preamble, postamble, tmpDir, stdin,
                   listeners, closeSeen, rename, events, retval, arg, out>>

\* the listener of "close": (code) => { ... }
CloseHandler ==
    IF exitCode # 0
    THEN /\ events' = events \o <<"close", FailureLog>>
         /\ UNCHANGED rename
    ELSE /\ events' = events \o <<"close", RenameEvent>>
         /\ rename' = "pending"

\* the event "close" is emitted: every listener registered by then is called
EmitClose ==
    /\ child = "exited"
    /\ ~closeSeen
    /\ Idle
    /\ closeSeen' = TRUE
    /\ IF listeners > 0
       THEN CloseHandler
       ELSE events' = Append(events, "close") /\ UNCHANGED rename
    /\ UNCHANGED <<data, data0, pc, texBody, preamble, postamble, tmpDir, child,
                   exitCode, stdin, listeners, retval, arg, out>>

\* RenameCallback without the throw
RenameCallback_swallow(err) ==
    IF err
    THEN rename' = "err" /\ events' = Append(events, SuccessLog)
    ELSE rename' = "ok" /\ events' = Append(events, SuccessLog)

\* the callback of fs.rename: (err) => { if (err) throw err; console.log(...) }
RenameCallback(err) ==
    IF err
    THEN rename' = "err" /\ events' = Append(events, "throw err")
    ELSE rename' = "ok" /\ events' = Append(events, SuccessLog)

RenameDone ==
    /\ rename = "pending"
    /\ Idle
    /\ \E err \in BOOLEAN : RenameCallback(err)
    /\ UNCHANGED <<data, data0, pc, texBody, preamble, postamble, tmpDir, child,
                   exitCode, stdin, listeners, closeSeen, retval, arg, out>>

\* the state in which render is called with context d
Called(d) ==
    /\ data = d
    /\ data0 = d
    /\ pc = "start"
    /\ texBody = <<>>
    /\ preamble = "none"
    /\ postamble = "none"
    /\ tmpDir \in BOOLEAN
    /\ child = "none"
    /\ exitCode = 0
    /\ stdin = <<>>
    /\ listeners = 0
    /\ closeSeen = FALSE
    /\ rename = "none"
    /\ events = <<>>
    /\ retval = "pending"

\* the state of render when it builds texBody from context d
AtBody(d) ==
    /\ data = d
    /\ data0 = d
    /\ pc = "body"
    /\ texBody = <<>>
    /\ preamble = "pending"
    /\ postamble = "pending"
    /\ tmpDir \in BOOLEAN
    /\ child = "none"
    /\ exitCode = 0
    /\ stdin = <<>>
    /\ listeners = 0
    /\ closeSeen = FALSE
    /\ rename = "none"
    /\ events = <<>>
    /\ retval = "pending"

Init ==
    /\ \E r \in SeqsUpTo(Names, MaxVenues) :
       \E p \in {<<Project("alpha", Undef), Project("gamma", Undef)>>,
                 <<Project("gamma", Undef), Project("alpha", Undef)>>} :
            Called([BaseData EXCEPT !.cv.refereeing = r, !.projectsAcademic = p])
    /\ arg = <<>>
    /\ out = [fn |-> "none"]

Next ==
    \/ ReadDispatch
    \/ BuildBody
    \/ EnsureTmp
    \/ Spawn
    \/ AwaitPreamble
    \/ AwaitPostamble
    \/ Write
    \/ End
    \/ RegisterClose
    \/ Return
    \/ PreambleSettles
    \/ PostambleSettles
    \/ ChildExit
    \/ EmitClose
    \/ RenameDone

Spec == Init /\ [][Next]_vars

-----------------------------------------------------------------------------
(* The functions of render on their own: the argument is drawn from a      *)
(* bounded set, render is at the point where it builds texBody and the     *)
(* function is applied once.                                               *)

ApplySortByDate ==
    /\ pc = "body"
    /\ out.fn = "none"
    /\ out' = [fn |-> "sortByDate", sorted |-> sortByDate(arg, "date")]
    /\ UNCHANGED <<renderVars, arg>>

\* sortByDate applied to its own result
ApplySortByDateAgain ==
    /\ pc = "body"
    /\ out.fn = "sortByDate"
    /\ out' = [fn |-> "sortByDate twice", sorted |-> out.sorted,
               again |-> sortByDate(out.sorted, "date")]
    /\ UNCHANGED <<renderVars, arg>>

ApplyTexPapers ==
    /\ pc = "body"
    /\ out.fn = "none"
    /\ out' = [fn |-> "texPapers",
               withStrings |-> [i \in DOMAIN arg |-> withString(arg[i])],
               journalStrings |-> [i \in DOMAIN arg |-> journalString(arg[i])],
               text |-> texPapers(arg)]
    /\ UNCHANGED <<renderVars, arg>>

ApplyTexAwards ==
    /\ pc = "body"
    /\ out.fn = "none"
    /\ out' = [fn |-> "texAwards", text |-> texAwards(arg)]
    /\ UNCHANGED <<renderVars, arg>>

InitSort ==
    /\ AtBody(BaseData)
    /\ arg \in DatedEntries
    /\ out = [fn |-> "none"]

NextSort == ApplySortByDate \/ ApplySortByDateAgain

SpecSort == InitSort /\ [][NextSort]_vars

InitCoauthors ==
    /\ AtBody(BaseData)
    /\ arg \in AuthorPapers
    /\ out = [fn |-> "none"]

InitStatus ==
    /\ AtBody(BaseData)
    /\ arg \in StatusPapers
    /\ out = [fn |-> "none"]

NextPapers == ApplyTexPapers

SpecCoauthors == InitCoauthors /\ [][NextPapers]_vars

SpecStatus == InitStatus /\ [][NextPapers]_vars

InitAwards ==
    /\ AtBody(BaseData)
    /\ arg \in AwardEntries
    /\ out = [fn |-> "none"]

NextAwards == ApplyTexAwards

SpecAwards == InitAwards /\ [][NextAwards]_vars

\* texBody on its own, over the collections of papers
InitBody ==
    /\ \E p \in SectionPapers : AtBody([BaseData EXCEPT !.collections.papers = p])
    /\ arg = <<>>
    /\ out = [fn |-> "none"]

NextBody == BuildBody

SpecBody == InitBody /\ [][NextBody]_vars

-----------------------------------------------------------------------------
(* The claims *)

\* position of the first x in s, 0 when there is none
First(s, x) ==
    IF x \in Range(s)
    THEN CHOOSE i \in DOMAIN s : s[i] = x /\ \A j \in 1..(i - 1) : s[j] # x
    ELSE 0

\* x occurs in s, and before the first y
Precedes(s, x, y) == First(s, x) > 0 /\ First(s, x) < First(s, y)

\* the text between the first from and the first to
Section(text, from, to) == SubSeq(text, First(text, from) + 1, First(text, to) - 1)

\* C1: once the compiler has exited and its exit has been notified, exit
\* code 0 has issued exactly one relocation of ./tmp/cv.pdf to ./dist/cv.pdf,
\* and any other exit code no relocation and exactly one diagnostic log
\* line, whenever the exit happened.
C1_ExitDecidesRelocation ==
    closeSeen =>
        IF exitCode = 0
        THEN Count(events, RenameEvent) = 1
        ELSE Count(events, RenameEvent) = 0 /\ Count(events, FailureLog) = 1

\* C2: the input stream of the compiler is closed before render returns,
\* render returns undefined, a relocation is issued only after render has
\* returned and only in answer to the exit notification, and the return of
\* render waits for nothing: it is enabled whatever the compiler has done.
C2_ReturnBeforeRelocation ==
    /\ RenameEvent \in Range(events) =>
          /\ Precedes(events, "stdin.end", "return")
          /\ Precedes(events, "return", "close")
          /\ Precedes(events, "close", RenameEvent)
    /\ pc = "returned" => retval = Undef /\ Precedes(events, "stdin.end", "return")
    /\ pc = "return" => ENABLED Return

\* C2 witness: render has returned and the relocation was issued afterwards
C2_Witness ==
    /\ pc = "returned"
    /\ events[Len(events)] = RenameEvent

\* C3: after render every collection of the context holds the same
\* elements in the same order as when render was called.
C3_ContextUnchanged ==
    pc = "returned" =>
        /\ data.cv.education = data0.cv.education
        /\ data.collections.papers = data0.collections.papers
        /\ data.cv.presentations = data0.cv.presentations
        /\ data.cv.awards = data0.cv.awards
        /\ data.cv.researchexp = data0.cv.researchexp
        /\ data.cv.refereeing = data0.cv.refereeing
        /\ data.projectsAcademic = data0.projectsAcademic
        /\ data.projectsProfessional = data0.projectsProfessional
        /\ data.projectsPersonal = data0.projectsPersonal
        /\ data.cv.references = data0.cv.references

\* C4: in texBody every paper of the collection is rendered exactly once,
\* under "Publications" when its accepted flag selects it and under
\* "Working Papers" when it does not, never under both.
C4_PapersPartitioned ==
    pc = "mkdir" =>
        \A i \in DOMAIN data0.collections.papers :
            LET paper == data0.collections.papers[i]
                published == Count(Section(texBody, PublicationsHeader, WorkingPapersHeader),
                                   paper.url)
                working == Count(Section(texBody, WorkingPapersHeader, PresentationsHeader),
                                 paper.url)
            IN  /\ published + working = 1
                /\ published = 1 <=> Truthy(paper.data.accepted)

\* C4 witness: a collection with a publication and a working paper was rendered
C4_Witness ==
    /\ pc = "mkdir"
    /\ \E i, j \in DOMAIN data0.collections.papers :
          /\ Truthy(data0.collections.papers[i].data.accepted)
          /\ ~Truthy(data0.collections.papers[j].data.accepted)

\* the parsed dates of a sorted collection never increase: no entry comes
\* before an entry of a later date (entries without a date are passed over)
NonIncreasing(sorted) ==
    \A i, j \in DOMAIN sorted :
        i < j => ~NumLt(DateParse(sorted[i].date), DateParse(sorted[j].date))

\* C5: sortByDate returns a permutation of its argument whose parsed dates
\* never increase, and sortByDate of its result is that result.
C5_SortedByDate ==
    /\ out.fn \in {"sortByDate", "sortByDate twice"} =>
          IsPermutation(out.sorted, arg) /\ NonIncreasing(out.sorted)
    /\ out.fn = "sortByDate twice" => out.again = out.sorted

\* C6: when the relocation fails the callback throws the error and the
\* success line is not logged; when the compiler exits with another code
\* than 0 nothing is thrown and no relocation is tried, and render still
\* resolves with undefined.
C6_FailuresReported ==
    /\ rename = "err" =>
          /\ events[Len(events)] = "throw err"
          /\ SuccessLog \notin Range(events)
    /\ (closeSeen /\ exitCode # 0) =>
          /\ "throw err" \notin Range(events)
          /\ rename = "none"
    /\ (child = "exited" /\ exitCode # 0 /\ pc = "returned") => retval = Undef

\* C6 witness: the compiler exited with code 0 and the relocation failed
C6_Witness ==
    /\ closeSeen
    /\ exitCode = 0
    /\ rename = "err"

\* the names of the authors other than the owner, in their order
RECURSIVE Coauthors(_)
Coauthors(authors) ==
    IF authors = <<>> THEN <<>>
    ELSE (IF Head(authors).name # Owner THEN <<Head(authors).name>> ELSE <<>>)
            \o Coauthors(Tail(authors))

\* the names joined by ", "
RECURSIVE CommaList(_)
CommaList(names) ==
    IF names = <<>> THEN <<>>
    ELSE IF Len(names) = 1 THEN names
    ELSE <<names[1], ", ">> \o CommaList(Tail(names))

\* C7: texPapers renders a co-author annotation for a paper exactly when it
\* has more than one author, and the annotation lists the authors other
\* than the owner, in their order, joined by ", ".
C7_CoauthorAnnotation ==
    out.fn = "texPapers" =>
        /\ \A i \in DOMAIN arg :
              out.withStrings[i] =
                  IF Len(arg[i].data.authors) > 1
                  THEN <<" (with ">> \o CommaList(Coauthors(arg[i].data.authors)) \o <<")">>
                  ELSE <<>>
        /\ Count(out.text, " (with ")
              = Cardinality({i \in DOMAIN arg : Len(arg[i].data.authors) > 1})

\* C7 witness: a paper of the owner and two others, and a paper of one author
C7_Witness ==
    /\ out.fn = "texPapers"
    /\ \E i, j \in DOMAIN arg :
          /\ Len(arg[i].data.authors) = 2
          /\ arg[i].data.authors[1].name = Owner
          /\ arg[i].data.authors[2].name # Owner
          /\ Len(arg[j].data.authors) = 1

\* C8: texPapers picks the status annotation of a paper by priority:
\* journal and published, then journal and accepted, then journal and rnr,
\* else none; without a journal there is never one.
C8_StatusAnnotation ==
    out.fn = "texPapers" =>
        /\ Count(out.text, "\n\n\\cvsubsubsection{")
              + Count(out.text, "\n\n\\cvsubsubsection{Accepted at ")
              + Count(out.text, "\n\n\\cvsubsubsection{R\\&R at ")
           = Cardinality({k \in DOMAIN arg :
                /\ Truthy(arg[k].data.journal)
                /\ \/ Truthy(arg[k].data.published)
                   \/ Truthy(arg[k].data.accepted)
                   \/ Truthy(arg[k].data.rnr)})
        /\ \A i \in DOMAIN arg :
            LET d == arg[i].data
                status == out.journalStrings[i]
            IN  /\ ~Truthy(d.journal) => status = <<>>
                /\ (Truthy(d.journal) /\ Truthy(d.published)) =>
                      status = <<"\n\n\\cvsubsubsection{", d.journal, " ", d.year, "}">>
                /\ (Truthy(d.journal) /\ ~Truthy(d.published) /\ Truthy(d.accepted)) =>
                      status = <<"\n\n\\cvsubsubsection{Accepted at ", d.journal, "}">>
                /\ (Truthy(d.journal) /\ ~Truthy(d.published) /\ ~Truthy(d.accepted)
                        /\ Truthy(d.rnr)) =>
                      status = <<"\n\n\\cvsubsubsection{R\\&R at ", d.journal, "}">>
                /\ (~Truthy(d.published) /\ ~Truthy(d.accepted) /\ ~Truthy(d.rnr)) =>
                      status = <<>>


\* C8 witness: a paper with a journal that is published, accepted and in
\* revision at once, and a paper with all the flags and no journal
C8_Witness ==
    /\ out.fn = "texPapers"
    /\ \E i, j \in DOMAIN arg :
          /\ Truthy(arg[i].data.journal) /\ Truthy(arg[i].data.published)
          /\ Truthy(arg[i].data.accepted) /\ Truthy(arg[i].data.rnr)
          /\ ~Truthy(arg[j].data.journal) /\ Truthy(arg[j].data.published)
          /\ Truthy(arg[j].data.accepted) /\ Truthy(arg[j].data.rnr)

\* the entry of an award as C9 describes it
RECURSIVE NonEmpty(_)
NonEmpty(fields) ==
    IF fields = <<>> THEN <<>>
    ELSE (IF Head(fields) \in {"", Undef} THEN <<>> ELSE <<Head(fields)>>)
            \o NonEmpty(Tail(fields))

AwardEntry(award) ==
    CommaList(NonEmpty(<<award.title, award.for, award.from>>))
        \o (IF award.date # Undef
            THEN <<" \\dateright{", getYear(award.date), "}">>
            ELSE IF award.start # Undef /\ award.end # Undef
            THEN <<" \\dateright{", getYear(award.start), "--", getYear(award.end), "}">>
            ELSE <<>>)

\* C9: texAwards renders every entry as its non-empty fields among title,
\* for, from, in that order, joined by ", ", followed by the year of date
\* when date is there, else by the range of years when start and end both
\* are, else by no date annotation.
C9_AwardEntries ==
    out.fn = "texAwards" =>
        out.text = Join([i \in DOMAIN arg |-> AwardEntry(sortByDate(arg, "date")[i])], "\n\n")

\* C9 witness: an entry with a start, no end and no date was rendered
C9_Witness ==
    /\ out.fn = "texAwards"
    /\ \E i \in DOMAIN arg :
          arg[i].date = Undef /\ arg[i].start # Undef /\ arg[i].end = Undef

\* C10: the compiler is spawned once; the document, preamble then body
\* then postamble, is written in one write, after both reads succeeded, and
\* the stream is closed once, after the write; when a read fails render
\* fails, nothing is written, no listener is registered and no relocation
\* is issued.
C10_OneSpawnOneWrite ==
    /\ Count(events, "spawn") = (IF pc \in {"start", "body", "mkdir", "spawn"} THEN 0 ELSE 1)
    /\ Len(stdin) <= 1
    /\ Count(events, "stdin.write") = Len(stdin)
    /\ stdin # <<>> =>
          /\ preamble = "ok" /\ postamble = "ok"
          /\ stdin[1] = <<PreambleText, "\n">> \o texBody \o <<"\n", PostambleText>>
    /\ Count(events, "stdin.end") = (IF pc \in {"on", "return", "returned"} THEN 1 ELSE 0)
    /\ "stdin.end" \in Range(events) => Precedes(events, "stdin.write", "stdin.end")
    /\ (preamble = "err" \/ postamble = "err") =>
          /\ pc \in {"awaitPreamble", "awaitPostamble", "rejected"}
          /\ stdin = <<>>
          /\ listeners = 0
          /\ RenameEvent \notin Range(events)
    /\ pc = "rejected" => (preamble = "err" \/ postamble = "err") /\ retval = "rejected"

\* C10 witness: the second read failed after the spawn, render failed and
\* the compiler has exited since
C10_Witness ==
    /\ pc = "rejected"
    /\ preamble = "ok"
    /\ postamble = "err"
    /\ closeSeen
    /\ exitCode = 0

=============================================================================
